---- MODULE Spec2Model ----
(***************************************************************************)
(* Model of the Snowflake MCP server of src/main.go: the resource handlers *)
(* (database, schema, table and view listings, table/view definition) and  *)
(* the query tool, each as the steps it takes against the warehouse.       *)
(*                                                                         *)
(* Strings that the code takes apart or puts together (locators, names)    *)
(* are sequences of one-character strings, so that regexp matching and     *)
(* fmt.Sprintf are computed character by character.                        *)
(***************************************************************************)
EXTENDS Integers, Sequences, FiniteSets, TLC

VARIABLES
    pc,         \* per invocation: "idle", "columns", "rows", "done"
    handler,    \* per invocation: the handler the dispatcher invoked
    uri,        \* per invocation: request.Params.URI
    given,      \* per invocation: the warehouse's answer to its query
    m,          \* per invocation: the submatches the handler extracted
    sent,       \* per invocation: the SQL texts it sent to the warehouse
    rows,       \* per invocation: its rows handle (0: none)
    columnInfo, \* per invocation: columnInfo of the query tool
    acc,        \* per invocation: rowsSlice / ret / columns built so far
    resp,       \* per invocation: what the handler returned
    touched,    \* per invocation: the cursors it read or closed
    after,      \* per invocation: it started after an earlier request failed
    cursors,    \* the warehouse's cursors
    hadFailure, \* some request has ended with an error
    serving     \* the process is serving requests

vars == <<pc, handler, uri, given, m, sent, rows, columnInfo, acc, resp,
          touched, after, cursors, hadFailure, serving>>

---------------------------------------------------------------------------
(* Bounds *)

NumInv == 2
MaxSegs == 5
MaxRows == 2
MaxOver == 1

Inv == 1 .. NumInv
CursorIds == 1 .. NumInv

(* const maxResultRows = 1000 *)
maxResultRows == 1000

---------------------------------------------------------------------------
(* Strings *)

Scheme == <<"s", "n", "o", "w", "f", "l", "a", "k", "e", ":", "/", "/">>
BadScheme == <<"s", "n", "o", "w", ":", "/", "/">>
Slash == <<"/">>
TablesSeg == <<"t", "a", "b", "l", "e", "s">>
ViewsSeg == <<"v", "i", "e", "w", "s">>
TableSeg == <<"t", "a", "b", "l", "e">>
ViewSeg == <<"v", "i", "e", "w">>

HasPrefixAt(s, pos, lit) ==
    /\ pos + Len(lit) - 1 <= Len(s)
    /\ SubSeq(s, pos, pos + Len(lit) - 1) = lit

(* The length of the longest run of characters other than "/" at pos. *)
RECURSIVE RunLen(_, _)
RunLen(s, pos) ==
    IF pos > Len(s) \/ s[pos] = "/" THEN 0 ELSE 1 + RunLen(s, pos + 1)

---------------------------------------------------------------------------
(* The regular expressions, as sequences of tokens.  Every pattern of the  *)
(* code starts with ^ and ends with $, so a match covers the whole string. *)

Lit(s) == [t |-> "lit", s |-> s]
(* The group with a star for the plus: it also takes an empty name *)
SegStar == [t |-> "seg", min |-> 0]
(* ([^/]+): a capturing group of one or more characters other than "/" *)
Seg == [t |-> "seg", min |-> 1]
(* (?:view|table): alternatives, tried left to right, not captured *)
Alt(opts) == [t |-> "alt", opts |-> opts]

schemaPat == <<Lit(Scheme), Seg>>
tablesPat == <<Lit(Scheme), Seg, Lit(Slash), Seg, Lit(Slash \o TablesSeg)>>
viewsPat == <<Lit(Scheme), Seg, Lit(Slash), Seg, Lit(Slash \o ViewsSeg)>>
defPat == <<Lit(Scheme), Seg, Lit(Slash), Seg, Lit(Slash),
            Alt(<<ViewSeg, TableSeg>>), Lit(Slash), Seg>>

Nil == <<>>

(* Backtracking match of pat[k..] against s[pos..]; caps are the groups    *)
(* captured so far.  Nil when there is no match, else <<s, group1, ...>>.  *)
RECURSIVE Match(_, _, _, _, _)
Match(pat, k, s, pos, caps) ==
    IF k > Len(pat)
    THEN IF pos = Len(s) + 1 THEN <<s>> \o caps ELSE Nil
    ELSE LET tok == pat[k] IN
         CASE tok.t = "lit" ->
                IF HasPrefixAt(s, pos, tok.s)
                THEN Match(pat, k + 1, s, pos + Len(tok.s), caps)
                ELSE Nil
           [] tok.t = "seg" ->
                LET run == RunLen(s, pos)
                    try(n) == Match(pat, k + 1, s, pos + n,
                                    Append(caps, SubSeq(s, pos, pos + n - 1)))
                    fits == {n \in tok.min .. run : try(n) # Nil}
                IN  IF fits = {} THEN Nil
                    ELSE try(CHOOSE n \in fits : \A n2 \in fits : n2 <= n)
           [] tok.t = "alt" ->
                LET try(j) == IF HasPrefixAt(s, pos, tok.opts[j])
                              THEN Match(pat, k + 1, s,
                                         pos + Len(tok.opts[j]), caps)
                              ELSE Nil
                    fits == {j \in 1 .. Len(tok.opts) : try(j) # Nil}
                IN  IF fits = {} THEN Nil
                    ELSE try(CHOOSE j \in fits : \A j2 \in fits : j <= j2)

FindStringSubmatch(pat, s) == Match(pat, 1, s, 1, <<>>)

---------------------------------------------------------------------------
(* Inputs: the locators a client may ask for and the warehouse's answers   *)

SeqsUpTo(S, n) == UNION {[1 .. k -> S] : k \in 0 .. n}

RECURSIVE JoinWith(_, _)
JoinWith(parts, sep) ==
    IF parts = <<>> THEN <<>>
    ELSE IF Len(parts) = 1 THEN parts[1]
    ELSE parts[1] \o sep \o JoinWith(Tail(parts), sep)

SegSet == {<<>>, <<"a">>, TablesSeg, ViewsSeg, TableSeg, ViewSeg}
URIs == {Scheme \o JoinWith(segs, Slash) : segs \in SeqsUpTo(SegSet, MaxSegs)}
        \cup {BadScheme \o JoinWith(segs, Slash) : segs \in SeqsUpTo(SegSet, 1)}

(* Names the warehouse may list: a plain one and one that holds a "/"      *)
(* (any character may stand in a quoted identifier).                       *)
Names == {<<"a">>, <<"a", "/", "a">>}

Ends == {"eof", "err"}

(* A warehouse answer: the query fails (qerr), or it gives a cursor that   *)
(* yields n rows and then ends, cleanly ("eof") or with an error ("err").  *)
(* The k-th row is pat[k], the rows going round pat when n > Len(pat).     *)
(* scanErrAt = k > 0: scanning the k-th row fails; colErr: ColumnTypes     *)
(* fails.                                                                  *)
NoAnswer == [qerr |-> FALSE, colErr |-> FALSE, cols |-> <<>>, n |-> 0,
             pat |-> <<>>, scanErrAt |-> 0, end |-> "eof"]
QueryFails == [NoAnswer EXCEPT !.qerr = TRUE]

RowAt(a, k) == a.pat[((k - 1) % Len(a.pat)) + 1]
RowsOfAnswer(a) == [k \in 1 .. a.n |-> RowAt(a, k)]

Cursors(cols, rowSeqs) ==
    {[qerr |-> FALSE, colErr |-> FALSE, cols |-> cols, n |-> Len(r), pat |-> r,
      scanErrAt |-> 0, end |-> e] : r \in rowSeqs, e \in Ends}
    \cup {[qerr |-> FALSE, colErr |-> FALSE, cols |-> cols, n |-> Len(r),
           pat |-> r, scanErrAt |-> Len(r), end |-> "eof"] :
              r \in rowSeqs \ {<<>>}}

NameRows == {[name |-> n] : n \in Names}
NameAnswers == {QueryFails} \cup Cursors(<<>>, SeqsUpTo(NameRows, MaxRows))

DescRows == {[name |-> "ID", type |-> "NUMBER(38,0)", kind |-> "COLUMN"],
             [name |-> "NAME", type |-> "VARCHAR(16)", kind |-> "COLUMN"],
             [name |-> "PK", type |-> "", kind |-> "PRIMARY KEY"]}
DescAnswers == {QueryFails} \cup Cursors(<<>>, SeqsUpTo(DescRows, MaxRows))

ColA == [name |-> "A", type |-> "FIXED"]
ColB == [name |-> "B", type |-> "REAL"]
ColLists == {<<ColA>>, <<ColA, ColB>>, <<ColA, ColA>>}
Values == {"1", "2", "NaN"}
(* A cursor of n rows of one column, "1", "2", "1", "2", ... *)
BigCursors(n) ==
    {[qerr |-> FALSE, colErr |-> FALSE, cols |-> <<ColA>>, n |-> n,
      pat |-> <<(<<"1">>), (<<"2">>)>>, scanErrAt |-> 0, end |-> e] : e \in Ends}
QueryAnswers ==
    {QueryFails, [NoAnswer EXCEPT !.colErr = TRUE]}
    \cup UNION {Cursors(c, SeqsUpTo([1 .. Len(c) -> Values], MaxRows)) :
                c \in ColLists}
    \cup UNION {BigCursors(n) :
                n \in (maxResultRows - MaxOver) .. (maxResultRows + MaxOver)}

QueryTexts == {"SELECT 1"}

---------------------------------------------------------------------------
(* What the handlers compute *)

NoDoc == [none |-> TRUE]

(* log.Fatalf(...) where the handler returns its error: the process ends *)
ErrorfExit(msg) == [ok |-> FALSE, err |-> msg, doc |-> NoDoc, exit |-> TRUE]
(* return nil, fmt.Errorf(...): an error response; the process goes on *)
Errorf(msg) == [ok |-> FALSE, err |-> msg, doc |-> NoDoc, exit |-> FALSE]
Ok(doc) == [ok |-> TRUE, err |-> "", doc |-> doc, exit |-> FALSE]
NoResp == [ok |-> FALSE, err |-> "", doc |-> NoDoc, exit |-> FALSE]

(* fmt.Sprintf of a catalog command with the names put in, joined by "." *)
Sql(cmd, names) == [cmd |-> cmd, ident |-> JoinWith(names, <<".">>)]

(* mcp.TextResourceContents{URI: ..., Text: name} of the listings *)
Contents(u, name) == [URI |-> u, Text |-> name]

(* The conv closure each listing handler passes to getNameList. *)
conv(h, mm, name) ==
    CASE h = "databases" -> Contents(Scheme \o name, name)
      [] h = "schemas" -> Contents(Scheme \o mm[2] \o Slash \o name, name)
      [] h = "tables" ->
            Contents(Scheme \o mm[2] \o Slash \o mm[3] \o Slash \o TableSeg
                     \o Slash \o name, name)
      [] h = "views" ->
            Contents(Scheme \o mm[2] \o Slash \o mm[3] \o Slash \o ViewSeg
                     \o Slash \o name, name)

ListingHandlers == {"databases", "schemas", "tables", "views"}

PatOf(h) ==
    CASE h = "schemas" -> schemaPat
      [] h = "tables" -> tablesPat
      [] h = "views" -> viewsPat
      [] h = "def" -> defPat

CatalogSql(h, mm) ==
    CASE h = "databases" -> Sql("SHOW TERSE DATABASES", <<>>)
      [] h = "schemas" -> Sql("SHOW TERSE SCHEMAS IN DATABASE", <<mm[2]>>)
      [] h = "tables" -> Sql("SHOW TERSE TABLES IN SCHEMA", <<mm[2], mm[3]>>)
      [] h = "views" -> Sql("SHOW TERSE TABLES IN SCHEMA", <<mm[2], mm[3]>>)
      [] h = "def" -> Sql("DESCRIBE TABLE", <<mm[2], mm[3], mm[4]>>)

QueryErr(h) ==
    CASE h \in ListingHandlers -> "Failed to run query"
      [] h = "def" -> "Failed to get table def"
      [] h = "query" -> "Failed to execute query"

(* rows.Next(): there is a next row; false on a closed or exhausted cursor *)
HasNext(cur) == cur.open /\ cur.pos < cur.ans.n
Advance(cur) == [cur EXCEPT !.pos = @ + 1]
Current(cur) == RowAt(cur.ans, cur.pos)
(* rows.StructScan / rows.SliceScan of the current row fails *)
ScanFails(cur) == cur.ans.scanErrAt = cur.pos

(* The values of the row in the opposite order *)
SliceScanReversed(row) == [j \in 1 .. Len(row) |-> row[Len(row) + 1 - j]]
(* rows.SliceScan(): the values of the row in column order *)
SliceScan(row) == [j \in 1 .. Len(row) |-> row[j]]

(* The loop without its "continue": every row is kept *)
SkippedNever(t) == FALSE
(* if t.Kind != "COLUMN" { continue } *)
Skipped(t) == t.kind # "COLUMN"

(* The break with > for >= *)
ReachedCapLate(n) == n > maxResultRows
(* if len(rowsSlice) >= maxResultRows { break } *)
ReachedCap(n) == n >= maxResultRows

(* json encoding of a column: Kind is tagged json:"-" *)
EncodeColumn(t) == [name |-> t.name, type |-> t.type]
EncodeColumns(cols) == [j \in 1 .. Len(cols) |-> EncodeColumn(cols[j])]

(* columnInfo = append(columnInfo, {"name": Name(), "type": DatabaseTypeName()}) *)
ColumnInfoOf(cols) ==
    [j \in 1 .. Len(cols) |-> [name |-> cols[j].name, type |-> cols[j].type]]

(* encoding/json refuses a NaN float: "json: unsupported value" *)
Encodable(rs) == \A k \in 1 .. Len(rs) : \A j \in 1 .. Len(rs[k]) : rs[k][j] # "NaN"

Notice == [text |-> "Only first %d rows are shown", n |-> maxResultRows]
QueryDoc(ci, rs) == [column_info |-> ci, rows |-> rs, notice |-> Notice]

---------------------------------------------------------------------------
(* The state machine *)

FreeCursor == [ans |-> NoAnswer, pos |-> 0, open |-> FALSE]

Init ==
    /\ pc = [i \in Inv |-> "idle"]
    /\ handler = [i \in Inv |-> "none"]
    /\ uri = [i \in Inv |-> <<>>]
    /\ given = [i \in Inv |-> NoAnswer]
    /\ m = [i \in Inv |-> Nil]
    /\ sent = [i \in Inv |-> <<>>]
    /\ rows = [i \in Inv |-> 0]
    /\ columnInfo = [i \in Inv |-> <<>>]
    /\ acc = [i \in Inv |-> <<>>]
    /\ resp = [i \in Inv |-> NoResp]
    /\ touched = [i \in Inv |-> {}]
    /\ after = [i \in Inv |-> FALSE]
    /\ cursors = [c \in CursorIds |-> FreeCursor]
    /\ hadFailure = FALSE
    /\ serving = TRUE

(* A rows variable shared by the handlers: the handle of another          *)
(* invocation when there is one.                                           *)
RowsOfShared(i) ==
    IF \E j \in Inv : j # i /\ rows[j] # 0
    THEN rows[CHOOSE j \in Inv : j # i /\ rows[j] # 0]
    ELSE rows[i]
(* The rows handle the invocation works on: its own local variable. *)
RowsOf(i) == rows[i]

(* rows.Close() called at the end of the handler only, not deferred. *)
CloseOnSuccessOnly(cs, c, r) ==
    IF r.ok THEN [cs EXCEPT ![c] = FreeCursor] ELSE cs
(* defer rows.Close(): runs when the handler returns r, whatever r is. *)
DeferredClose(cs, c, r) == [cs EXCEPT ![c] = FreeCursor]

(* The handler returns r; cs are the cursors as its last step left them. *)
Return(i, r, cs) ==
    /\ pc' = [pc EXCEPT ![i] = "done"]
    /\ resp' = [resp EXCEPT ![i] = r]
    /\ cursors' = IF rows[i] # 0 THEN DeferredClose(cs, RowsOf(i), r) ELSE cs
    /\ touched' = IF rows[i] # 0
                  THEN [touched EXCEPT ![i] = @ \cup {RowsOf(i)}]
                  ELSE touched
    /\ hadFailure' = (hadFailure \/ ~r.ok)
    /\ serving' = (serving /\ ~r.exit)

(* The handler goes on to p, having read cursor c. *)
Goto(i, p, c, cs) ==
    /\ pc' = [pc EXCEPT ![i] = p]
    /\ cursors' = cs
    /\ touched' = [touched EXCEPT ![i] = @ \cup {c}]
    /\ UNCHANGED <<resp, hadFailure, serving>>

Request(i, h, u) ==
    /\ serving
    /\ pc[i] = "idle"
    /\ handler' = [handler EXCEPT ![i] = h]
    /\ uri' = [uri EXCEPT ![i] = u]
    /\ after' = [after EXCEPT ![i] = hadFailure]
    /\ UNCHANGED <<columnInfo, acc>>

(* return nil, fmt.Errorf("Invalid URI"): nothing is sent *)
InvalidURI(i) ==
    /\ UNCHANGED <<given, m, sent, rows>>
    /\ Return(i, Errorf("Invalid URI"), cursors)

(* db.Queryx(sql): an error, or a rows handle on a new cursor *)
Queryx(i, h, mm, sql, a) ==
    /\ given' = [given EXCEPT ![i] = a]
    /\ m' = [m EXCEPT ![i] = mm]
    /\ sent' = [sent EXCEPT ![i] = Append(@, sql)]
    /\ IF a.qerr
       THEN /\ UNCHANGED rows
            /\ Return(i, Errorf(QueryErr(h)), cursors)
       ELSE /\ \E c \in CursorIds : ~cursors[c].open
            /\ LET c == CHOOSE c \in CursorIds :
                          /\ ~cursors[c].open
                          /\ \A d \in CursorIds : ~cursors[d].open => c <= d
               IN  /\ rows' = [rows EXCEPT ![i] = c]
                   /\ cursors' = [cursors EXCEPT
                                    ![c] = [ans |-> a, pos |-> 0, open |-> TRUE]]
            /\ pc' = [pc EXCEPT ![i] = IF h = "query" THEN "columns" ELSE "rows"]
            /\ UNCHANGED <<resp, touched, hadFailure, serving>>

(* The database list handler: no pattern, SHOW TERSE DATABASES. *)
DatabaseList(i, u, As) ==
    /\ Request(i, "databases", u)
    /\ \E a \in As : Queryx(i, "databases", Nil, CatalogSql("databases", Nil), a)

(* A handler with a pattern: schema, table and view list, definition. *)
Catalog(i, h, u, As) ==
    /\ Request(i, h, u)
    /\ LET mm == FindStringSubmatch(PatOf(h), u)
       IN  IF mm = Nil
           THEN InvalidURI(i)
           ELSE \E a \in As : Queryx(i, h, mm, CatalogSql(h, mm), a)

SchemaList(i, u, As) == Catalog(i, "schemas", u, As)
TableList(i, u, As) == Catalog(i, "tables", u, As)
ViewList(i, u, As) == Catalog(i, "views", u, As)
vtDefHandler(i, u, As) == Catalog(i, "def", u, As)

(* The query tool: db.QueryxContext(ctx, query). *)
QueryTool(i, q, As) ==
    /\ Request(i, "query", <<>>)
    /\ \E a \in As : Queryx(i, "query", Nil, Sql(q, <<>>), a)

(* rows.ColumnTypes() and the columnInfo loop of the query tool. *)
ColumnTypes(i) ==
    /\ pc[i] = "columns"
    /\ UNCHANGED <<handler, uri, given, m, sent, rows, acc, after>>
    /\ LET c == RowsOf(i)
           cur == cursors[c]
       IN  IF cur.ans.colErr \/ ~cur.open
           THEN /\ UNCHANGED columnInfo
                /\ Return(i, Errorf("Failed to get column types"), cursors)
           ELSE /\ columnInfo' = [columnInfo EXCEPT ![i] = ColumnInfoOf(cur.ans.cols)]
                /\ Goto(i, "rows", c, cursors)

(* One turn of getNameList's "for rows.Next()" loop, or its end. *)
GetNameListNext(i) ==
    /\ pc[i] = "rows"
    /\ handler[i] \in ListingHandlers
    /\ UNCHANGED <<handler, uri, given, m, sent, rows, columnInfo, after>>
    /\ LET c == RowsOf(i)
           cur == cursors[c]
       IN  IF ~HasNext(cur)
           THEN /\ UNCHANGED acc
                /\ Return(i, Ok([contents |-> acc[i]]), cursors)
           ELSE LET cur2 == Advance(cur)
                    cs == [cursors EXCEPT ![c] = cur2]
                IN  IF ScanFails(cur2)
                    THEN /\ UNCHANGED acc
                         /\ Return(i, Errorf("Failed to scan rows"), cs)
                    ELSE /\ acc' = [acc EXCEPT ![i] =
                                Append(@, conv(handler[i], m[i], Current(cur2).name))]
                         /\ Goto(i, "rows", c, cs)

(* One turn of vtDefHandler's loop, or its end and the encoding. *)
DefNext(i) ==
    /\ pc[i] = "rows"
    /\ handler[i] = "def"
    /\ UNCHANGED <<handler, uri, given, m, sent, rows, columnInfo, after>>
    /\ LET c == RowsOf(i)
           cur == cursors[c]
       IN  IF ~HasNext(cur)
           THEN /\ UNCHANGED acc
                /\ Return(i, Ok([columns |-> EncodeColumns(acc[i])]), cursors)
           ELSE LET cur2 == Advance(cur)
                    cs == [cursors EXCEPT ![c] = cur2]
                    t == Current(cur2)
                IN  IF ScanFails(cur2)
                    THEN /\ UNCHANGED acc
                         /\ Return(i, Errorf("Failed to scan rows"), cs)
                    ELSE /\ acc' = [acc EXCEPT ![i] =
                                IF Skipped(t) THEN @ ELSE Append(@, t)]
                         /\ Goto(i, "rows", c, cs)

(* What the query tool returns once its loop is over. *)
QueryResult(ci, rs) ==
    IF Encodable(rs) THEN Ok(QueryDoc(ci, rs))
    ELSE Errorf("Failed to marshal result")

(* One turn of the query tool's loop, or its end and the encoding. *)
QueryNext(i) ==
    /\ pc[i] = "rows"
    /\ handler[i] = "query"
    /\ UNCHANGED <<handler, uri, given, m, sent, rows, columnInfo, after>>
    /\ LET c == RowsOf(i)
           cur == cursors[c]
       IN  IF ~HasNext(cur)
           THEN /\ UNCHANGED acc
                /\ Return(i, QueryResult(columnInfo[i], acc[i]), cursors)
           ELSE LET cur2 == Advance(cur)
                    cs == [cursors EXCEPT ![c] = cur2]
                    rs == Append(acc[i], SliceScan(Current(cur2)))
                IN  IF ScanFails(cur2)
                    THEN /\ UNCHANGED acc
                         /\ Return(i, Errorf("Failed to scan row"), cs)
                    ELSE /\ acc' = [acc EXCEPT ![i] = rs]
                         /\ IF ReachedCap(Len(rs))
                            THEN Return(i, QueryResult(columnInfo[i], rs), cs)
                            ELSE Goto(i, "rows", c, cs)

(* The response has gone to the client; the invocation is over. *)
Deliver(i) ==
    /\ pc[i] = "done"
    /\ pc' = [pc EXCEPT ![i] = "idle"]
    /\ handler' = [handler EXCEPT ![i] = "none"]
    /\ uri' = [uri EXCEPT ![i] = <<>>]
    /\ given' = [given EXCEPT ![i] = NoAnswer]
    /\ m' = [m EXCEPT ![i] = Nil]
    /\ sent' = [sent EXCEPT ![i] = <<>>]
    /\ rows' = [rows EXCEPT ![i] = 0]
    /\ columnInfo' = [columnInfo EXCEPT ![i] = <<>>]
    /\ acc' = [acc EXCEPT ![i] = <<>>]
    /\ resp' = [resp EXCEPT ![i] = NoResp]
    /\ touched' = [touched EXCEPT ![i] = {}]
    /\ after' = [after EXCEPT ![i] = FALSE]
    /\ UNCHANGED <<cursors, hadFailure, serving>>

Step(i) ==
    \/ ColumnTypes(i)
    \/ GetNameListNext(i)
    \/ DefNext(i)
    \/ QueryNext(i)
    \/ Deliver(i)

NoneInFlight == \A j \in Inv : pc[j] = "idle"

(* Requests handled one at a time, over all locators and answers. *)
Next ==
    \/ /\ NoneInFlight
       /\ \/ \E u \in URIs : SchemaList(1, u, NameAnswers)
          \/ DatabaseList(1, Scheme, NameAnswers)
          \/ \E u \in URIs : TableList(1, u, NameAnswers)
          \/ \E u \in URIs : ViewList(1, u, NameAnswers)
          \/ \E u \in URIs : vtDefHandler(1, u, DescAnswers)
          \/ \E q \in QueryTexts : QueryTool(1, q, QueryAnswers)
    \/ \E i \in Inv : Step(i)

Spec == Init /\ [][Next]_vars

---------------------------------------------------------------------------
(* Requests in flight at the same time, over a few locators and answers.   *)

ConcURI == Scheme \o <<"a">> \o Slash \o <<"a">> \o Slash \o TableSeg
                  \o Slash \o <<"a">>
OneRow(cols, row) == [NoAnswer EXCEPT !.cols = cols, !.n = 1, !.pat = <<row>>]
ConcNameAnswers == {QueryFails, OneRow(<<>>, [name |-> <<"a">>])}
ConcDescAnswers ==
    {OneRow(<<>>, [name |-> "ID", type |-> "NUMBER(38,0)", kind |-> "COLUMN"])}
ConcQueryAnswers == {OneRow(<<ColB>>, <<"2">>)}

NextConc ==
    \/ \E i \in Inv :
          \/ DatabaseList(i, Scheme, ConcNameAnswers)
          \/ vtDefHandler(i, ConcURI, ConcDescAnswers)
          \/ \E q \in QueryTexts : QueryTool(i, q, ConcQueryAnswers)
    \/ \E i \in Inv : Step(i)

SpecConc == Init /\ [][NextConc]_vars

---------------------------------------------------------------------------
(* Properties *)

Done(i) == pc[i] = "done"
PatternHandlers == {"schemas", "tables", "views", "def"}

(* The response of handler h to locator u and warehouse answer a when it   *)
(* runs with nothing else going on, stated over the whole answer at once.  *)
RunAlone(h, u, a) ==
    LET mm == IF h \in PatternHandlers THEN FindStringSubmatch(PatOf(h), u)
              ELSE Nil
        all == RowsOfAnswer(a)
        n == Len(all)
        lim == IF h = "query" /\ n > maxResultRows THEN maxResultRows ELSE n
        sel == SelectSeq(all, LAMBDA t : t.kind = "COLUMN")
    IN  IF h \in PatternHandlers /\ mm = Nil THEN Errorf("Invalid URI")
        ELSE IF a.qerr THEN Errorf(QueryErr(h))
        ELSE IF h = "query" /\ a.colErr THEN Errorf("Failed to get column types")
        ELSE IF a.scanErrAt \in 1 .. lim
             THEN Errorf(IF h = "query" THEN "Failed to scan row"
                         ELSE "Failed to scan rows")
        ELSE CASE h \in ListingHandlers ->
                    Ok([contents |-> [k \in 1 .. n |-> conv(h, mm, all[k].name)]])
               [] h = "def" ->
                    Ok([columns |-> [j \in 1 .. Len(sel) |->
                                       [name |-> sel[j].name, type |-> sel[j].type]]])
               [] h = "query" ->
                    QueryResult(ColumnInfoOf(a.cols),
                                [k \in 1 .. lim |-> SliceScan(all[k])])

(* C1: a successful query whose cursor yields N rows renders exactly N     *)
(* rows when N <= 1000 and exactly 1000 when N > 1000, and they are the    *)
(* first rows of the cursor, in cursor order.                              *)
C1_RowCap ==
    \A i \in Inv :
        (Done(i) /\ handler[i] = "query" /\ resp[i].ok) =>
            LET N == given[i].n
            IN  resp[i].doc.rows =
                    SubSeq(RowsOfAnswer(given[i]), 1, IF N <= 1000 THEN N ELSE 1000)

C1_Witness ==
    \E i \in Inv :
        /\ Done(i) /\ handler[i] = "query" /\ resp[i].ok
        /\ given[i].n > 1000
        /\ Len(resp[i].doc.rows) = 1000

(* The segments of s between its "/" characters. *)
RECURSIVE SplitSlash(_)
SplitSlash(s) ==
    LET run == RunLen(s, 1)
    IN  IF run = Len(s) THEN <<s>>
        ELSE <<SubSeq(s, 1, run)>> \o SplitSlash(SubSeq(s, run + 2, Len(s)))

Segments(u) == SplitSlash(SubSeq(u, Len(Scheme) + 1, Len(u)))

(* u has the shape of handler h's locators. *)
HasShape(h, u) ==
    /\ HasPrefixAt(u, 1, Scheme)
    /\ LET segs == Segments(u)
       IN  CASE h = "schemas" -> Len(segs) = 1 /\ segs[1] # <<>>
             [] h = "tables" ->
                    /\ Len(segs) = 3
                    /\ segs[1] # <<>> /\ segs[2] # <<>> /\ segs[3] = TablesSeg
             [] h = "views" ->
                    /\ Len(segs) = 3
                    /\ segs[1] # <<>> /\ segs[2] # <<>> /\ segs[3] = ViewsSeg
             [] h = "def" ->
                    /\ Len(segs) = 4
                    /\ segs[1] # <<>> /\ segs[2] # <<>> /\ segs[4] # <<>>
                    /\ segs[3] \in {TableSeg, ViewSeg}

(* C2: a catalog handler given a locator that has not its shape returns    *)
(* the invalid-locator error and sends no SQL to the warehouse.            *)
C2_InvalidLocator ==
    \A i \in Inv :
        (Done(i) /\ handler[i] \in PatternHandlers
                 /\ ~HasShape(handler[i], uri[i])) =>
            /\ ~resp[i].ok
            /\ resp[i].err = "Invalid URI"
            /\ sent[i] = <<>>

(* An empty database name in an otherwise well-formed table-list locator. *)
C2_Witness ==
    \E i \in Inv :
        /\ Done(i) /\ handler[i] = "tables"
        /\ uri[i] = Scheme \o Slash \o <<"a">> \o Slash \o TablesSeg
        /\ resp[i].err = "Invalid URI"

(* The cursor of invocation i failed while the handler was iterating. *)
CursorFailed(i) ==
    LET a == given[i]
        n == a.n
        capped == handler[i] = "query" /\ n >= maxResultRows
    IN  /\ rows[i] # 0
        /\ ~a.colErr
        /\ \/ a.scanErrAt # 0 /\ (capped => a.scanErrAt <= maxResultRows)
           \/ a.end = "err" /\ ~capped

(* C3: when the cursor fails during the iteration, by a scan error or by   *)
(* stopping early with an error, the request ends with an error and no     *)
(* result document.                                                        *)
C3_NoPartialSuccess ==
    \A i \in Inv : (Done(i) /\ CursorFailed(i)) => ~resp[i].ok

(* u is the root locator or matches the pattern of a registered handler. *)
Registered(u) ==
    \/ u = Scheme
    \/ \E h \in PatternHandlers : FindStringSubmatch(PatOf(h), u) # Nil

(* C4: every child locator a listing emits matches the pattern of a        *)
(* registered handler.                                                     *)
C4_TraversalClosure ==
    \A i \in Inv :
        (Done(i) /\ resp[i].ok /\ handler[i] \in ListingHandlers) =>
            \A k \in 1 .. Len(resp[i].doc.contents) :
                Registered(resp[i].doc.contents[k].URI)

(* C5: the locator built from each name of the database listing is         *)
(* accepted by the schema list handler, which extracts that name from it,  *)
(* and matches the pattern of no other handler.                            *)
C5_DatabaseRoundTrip ==
    \A i \in Inv :
        (Done(i) /\ resp[i].ok /\ handler[i] = "databases") =>
            \A k \in 1 .. Len(resp[i].doc.contents) :
                LET u == resp[i].doc.contents[k].URI
                    name == RowAt(given[i], k).name
                IN  /\ FindStringSubmatch(schemaPat, u) = <<u, name>>
                    /\ \A h \in {"tables", "views", "def"} :
                           FindStringSubmatch(PatOf(h), u) = Nil

(* C6: the columns of a definition are exactly the rows of kind "COLUMN",  *)
(* each with its name and type, in the order the warehouse gave them.      *)
C6_DefinitionFilter ==
    \A i \in Inv :
        (Done(i) /\ resp[i].ok /\ handler[i] = "def") =>
            LET sel == SelectSeq(RowsOfAnswer(given[i]), LAMBDA t : t.kind = "COLUMN")
            IN  resp[i].doc.columns =
                    [j \in 1 .. Len(sel) |->
                        [name |-> sel[j].name, type |-> sel[j].type]]

C6_Witness ==
    \E i \in Inv :
        /\ Done(i) /\ resp[i].ok /\ handler[i] = "def"
        /\ given[i].n = 2
        /\ RowAt(given[i], 1).kind = "PRIMARY KEY"
        /\ Len(resp[i].doc.columns) = 1

(* The map-shaped row: each column name bound to the value of the last     *)
(* column of that name.                                                    *)
MapScan(cols, row) ==
    [nm \in {cols[j].name : j \in 1 .. Len(cols)} |->
        row[CHOOSE j \in 1 .. Len(cols) :
                /\ cols[j].name = nm
                /\ \A j2 \in 1 .. Len(cols) : cols[j2].name = nm => j2 <= j]]

ArrayEqualsMap(i) ==
    \A k \in 1 .. Len(resp[i].doc.rows) :
        \A j \in 1 .. Len(resp[i].doc.column_info) :
            resp[i].doc.rows[k][j] =
                MapScan(given[i].cols, RowAt(given[i], k))
                    [resp[i].doc.column_info[j].name]

DistinctNames(ci) ==
    \A j, j2 \in 1 .. Len(ci) : ci[j].name = ci[j2].name => j = j2

(* C7, as claimed: for every column list, repeated names included, the     *)
(* array-shaped row and the map-shaped row agree, array[i] =               *)
(* map[column_info[i].name].                                               *)
C7_ShapeEquivalenceAnyColumns ==
    \A i \in Inv :
        (Done(i) /\ resp[i].ok /\ handler[i] = "query") => ArrayEqualsMap(i)

(* C7, amended: the two shapes agree when the column names are pairwise    *)
(* distinct.                                                               *)
C7_ShapeEquivalence ==
    \A i \in Inv :
        (Done(i) /\ resp[i].ok /\ handler[i] = "query"
                 /\ DistinctNames(resp[i].doc.column_info)) => ArrayEqualsMap(i)

C7_Witness ==
    \E i \in Inv :
        /\ Done(i) /\ resp[i].ok /\ handler[i] = "query"
        /\ Len(resp[i].doc.column_info) = 2
        /\ DistinctNames(resp[i].doc.column_info)
        /\ Len(resp[i].doc.rows) = 2
        /\ resp[i].doc.rows[1][1] # resp[i].doc.rows[1][2]

(* C8: after requests that failed the server is still serving, and a       *)
(* later request gets the response it would have got with no earlier       *)
(* failure.                                                                *)
C8_FailureIsolation ==
    /\ serving
    /\ \A i \in Inv :
          (Done(i) /\ after[i]) =>
              resp[i] = RunAlone(handler[i], uri[i], given[i])

C8_Witness ==
    \E i \in Inv : Done(i) /\ after[i] /\ resp[i].ok /\ serving

(* C9: a cursor opened by an invocation is closed when the invocation has  *)
(* returned, on every exit path; a failed query opens no cursor; with no   *)
(* invocation running no cursor is open.                                   *)
C9_CursorRelease ==
    /\ \A i \in Inv :
          Done(i) => /\ rows[i] # 0 => ~cursors[rows[i]].open
                     /\ given[i].qerr => rows[i] = 0
    /\ (\A i \in Inv : pc[i] \in {"idle", "done"}) =>
          \A c \in CursorIds : ~cursors[c].open

C9_Witness ==
    \E i \in Inv :
        /\ Done(i) /\ rows[i] # 0
        /\ resp[i].err = "Failed to marshal result"
        /\ ~cursors[rows[i]].open

(* C10: with requests in flight together, each invocation reads and closes *)
(* only the cursor it opened, and its response is the one it gives when    *)
(* run alone on the same warehouse answer.                                 *)
C10_NoInterference ==
    \A i \in Inv :
        /\ touched[i] \subseteq ({rows[i]} \ {0})
        /\ Done(i) => resp[i] = RunAlone(handler[i], uri[i], given[i])

(* Two invocations have finished whose cursors were open together. *)
C10_Witness ==
    \E i, j \in Inv :
        /\ i # j /\ Done(i) /\ Done(j)
        /\ rows[i] # 0 /\ rows[j] # 0 /\ rows[i] # rows[j]
        /\ resp[i].ok /\ resp[j].ok

====
